---- MODULE Spec2Model ----
(***************************************************************************)
(* Arithmetic over GF(2^8) as implemented in src/lib.rs: the byte helpers  *)
(* mask and xtimes, the lazily built exp/log/inv tables behind a Once      *)
(* guard (get_tables), and the Gf256 operations built on them.             *)
(***************************************************************************)
EXTENDS Integers, Sequences, FiniteSets, TLC

\* ---------------------------------------------------------------- bounds
\* Number of threads calling into the library concurrently (SpecConc).
NumThreads == 2

\* Largest operand byte the concurrent callers pass (SpecConc); the
\* sequential specifications pass every byte.
MaxConcArg == 1

\* ------------------------------------------------------------- u8 helpers
Byte == 0..255

\* Option::None (log / inv of zero) and the "Division by zero" panic of div,
\* encoded outside the byte range.
None == -1
DivisionByZero == -2

\* POLY: u8 = 0x1D
POLY == 29

RECURSIVE XorBits(_, _, _)
XorBits(a, b, n) ==
    IF n = 0 THEN 0
    ELSE ((a + b) % 2) + 2 * XorBits(a \div 2, b \div 2, n - 1)

RECURSIVE AndBits(_, _, _)
AndBits(a, b, n) ==
    IF n = 0 THEN 0
    ELSE ((a % 2) * (b % 2)) + 2 * AndBits(a \div 2, b \div 2, n - 1)

\* u8 ^ u8, tabulated once from the bitwise definition.
XorTable == [a \in Byte |-> [b \in Byte |-> XorBits(a, b, 8)]]

Xor(a, b) == XorTable[a][b]
And(a, b) == AndBits(a, b, 8)

\* (Wrapping(0u8) - Wrapping(bit & 1)).0
mask(bit) == (256 - And(bit, 1)) % 256

\* Faulty variants of xtimes: the reduction left out, and the reduction by
\* the AES polynomial 0x1B instead of POLY.
xtimesNoReduce(poly) == (poly * 2) % 256

xtimesAes(poly) == Xor((poly * 2) % 256, And(mask(poly \div 128), 27))

\* (poly << 1) ^ (mask(poly >> 7) & POLY), the shift truncated to 8 bits
xtimes(poly) == Xor((poly * 2) % 256, And(mask(poly \div 128), POLY))

\* ------------------------------------------------------------------ state
VARIABLES
    INIT,     \* the Once guard: "incomplete", "running" or "complete"
    TABLES,   \* static mut TABLES: [exp, log, inv], each [u8; 256]
    thr,      \* per thread: the call in progress and its registers
    runs,     \* how many times the call_once closure body has been entered
    early     \* TRUE once a table entry was read while INIT was not complete

vars == <<INIT, TABLES, thr, runs, early>>

Threads == 1..NumThreads

\* Tables { exp: [0; 256], log: [0; 256], inv: [0; 256] }
ZeroTables ==
    [exp |-> [i \in Byte |-> 0], log |-> [i \in Byte |-> 0], inv |-> [i \in Byte |-> 0]]

\* ------------------------------------------------- table construction body
\* One iteration of `for power in 0..255usize` (tmp is advanced by the caller).
ExpLogStep(T, power, tmp) ==
    [T EXCEPT !.exp[power] = tmp, !.log[tmp] = power]

\* tabs.exp[255] = 1
SetExp255(T) == [T EXCEPT !.exp[255] = 1]

\* One iteration of `for x in 1..256usize`.
InvStep(T, x) ==
    LET l  == T.log[x]
        nl == IF l = 0 THEN 0 ELSE 255 - l
        i  == T.exp[nl]
    IN  [T EXCEPT !.inv[x] = i]

\* `for power in 0..255usize { ... }` continued from loop state
\* S = [tabs, power, tmp] until power reaches stop.  (The loop state is one
\* record so that each iteration is evaluated before the next one starts,
\* and the loops are taken in runs of 16 iterations, which keeps the depth
\* of the evaluation small.)
RECURSIVE ExpLogLoop(_, _)
ExpLogLoop(S, stop) ==
    IF S.power >= stop THEN S
    ELSE ExpLogLoop([tabs  |-> ExpLogStep(S.tabs, S.power, S.tmp),
                     power |-> S.power + 1,
                     tmp   |-> xtimes(S.tmp)], stop)

RECURSIVE ExpLogAll(_)
ExpLogAll(S) ==
    IF S.power >= 255 THEN S.tabs
    ELSE ExpLogAll(ExpLogLoop(S, IF S.power + 16 > 255 THEN 255 ELSE S.power + 16))

\* `for x in 1..256usize { ... }` continued from loop state S = [tabs, x].
RECURSIVE InvLoop(_, _)
InvLoop(S, stop) ==
    IF S.x >= stop THEN S
    ELSE InvLoop([tabs |-> InvStep(S.tabs, S.x), x |-> S.x + 1], stop)

RECURSIVE InvAll(_)
InvAll(S) ==
    IF S.x >= 256 THEN S.tabs
    ELSE InvAll(InvLoop(S, IF S.x + 16 > 256 THEN 256 ELSE S.x + 16))

\* The whole closure handed to INIT.call_once, run without interruption.
BuildTables(T) ==
    LET t1 == ExpLogAll([tabs |-> T, power |-> 0, tmp |-> 1])
    IN  InvAll([tabs |-> SetExp255(t1), x |-> 1])

\* get_tables() as seen by a lone caller: the tables it returns.
get_tables(once, T) == IF once = "complete" THEN T ELSE BuildTables(T)

\* ------------------------------------------------------- Gf256 operations
zero == 0
one == 1

\* Gf256::log
log(T, a) == IF a = 0 THEN None ELSE T.log[a]

\* Gf256::xexp
xexp(T, power) == T.exp[power]

\* Faulty variants of exp: the product taken in u8, and 0^0 taken as one.
expU8(T, a, power) ==
    LET i == log(T, a)
    IN  IF i = None THEN zero
        ELSE xexp(T, ((i * power) % 256) % 255)

expZeroPowZero(T, a, power) ==
    LET i == log(T, a)
    IN  IF i = None THEN (IF power = 0 THEN one ELSE zero)
        ELSE xexp(T, ((i * power) % 65536) % 255)

\* Gf256::exp, the product taken in u16
exp(T, a, power) ==
    LET i == log(T, a)
    IN  IF i = None THEN zero
        ELSE xexp(T, ((i * power) % 65536) % 255)

\* Faulty variant of inv: the group order taken as 254.
invOffByOne(T, a) ==
    LET l == log(T, a)
    IN  IF l = None THEN None ELSE xexp(T, 254 - l)

\* Gf256::inv
inv(T, a) ==
    LET l == log(T, a)
    IN  IF l = None THEN None ELSE xexp(T, 255 - l)

\* Add::add
add(a, b) == Xor(a, b)

\* Faulty variants of mul: the sum reduced modulo 256, and the zero check
\* of the right operand left out (its logarithm read from the table).
mulMod256(T, a, b) ==
    LET l1 == log(T, a)
        l2 == log(T, b)
    IN  IF l1 # None /\ l2 # None
        THEN xexp(T, ((l1 + l2) % 65536) % 256)
        ELSE 0

mulNoRhsCheck(T, a, b) ==
    LET l1 == log(T, a)
        l2 == T.log[b]
    IN  IF l1 # None
        THEN xexp(T, ((l1 + l2) % 65536) % 255)
        ELSE 0

\* Mul::mul, the sum taken in u16
mul(T, a, b) ==
    LET l1 == log(T, a)
        l2 == log(T, b)
    IN  IF l1 # None /\ l2 # None
        THEN xexp(T, ((l1 + l2) % 65536) % 255)
        ELSE 0

\* Faulty variants of div: the difference taken without the bias of 255
\* (it wraps in u16), and a zero divisor answered with zero.
divNoBias(T, a, b) ==
    LET l2 == log(T, b)
    IN  IF l2 = None THEN DivisionByZero
        ELSE LET l1 == log(T, a)
             IN  IF l1 # None
                 THEN xexp(T, ((l1 - l2) % 65536) % 255)
                 ELSE 0

divSilentZero(T, a, b) ==
    LET l2 == log(T, b)
    IN  IF l2 = None THEN 0
        ELSE LET l1 == log(T, a)
             IN  IF l1 # None
                 THEN xexp(T, ((l1 + 255 - l2) % 65536) % 255)
                 ELSE 0

\* Div::div; rhs.log().expect("Division by zero") comes first
div(T, a, b) ==
    LET l2 == log(T, b)
    IN  IF l2 = None THEN DivisionByZero
        ELSE LET l1 == log(T, a)
             IN  IF l1 # None
                 THEN xexp(T, ((l1 + 255 - l2) % 65536) % 255)
                 ELSE 0

\* ------------------------------------------------ sequential specification
\* One caller (thread 1) performs whole table-using operations, one after
\* another, on any operands.
\* A thread's registers: pc (where it stands), the operation and operands of
\* the call in progress, its result, and the locals of the code it is in
\* (l1, l2: the two logarithms; idx: the argument of xexp; ret: which lookup
\* the current get_tables() call serves; power, tmp, x: the closure's locals).
Idle ==
    [pc |-> "idle", op |-> "none", a |-> 0, b |-> 0, res |-> 0,
     l1 |-> 0, l2 |-> 0, idx |-> 0, ret |-> "none",
     power |-> 0, tmp |-> 0, x |-> 0]

Done(o, x, y, r) == [Idle EXCEPT !.pc = "done", !.op = o, !.a = x, !.b = y, !.res = r]

Init ==
    /\ INIT = "incomplete"
    /\ TABLES = ZeroTables
    /\ thr = [t \in Threads |-> Idle]
    /\ runs = 0
    /\ early = FALSE

\* Whether a call reaches get_tables(): log returns None for zero before it,
\* xexp always goes to the table, exp and inv start with log of the operand,
\* mul takes both logarithms, and div panics on a zero divisor before it
\* takes the logarithm of the dividend.
CallsGetTables(o, x, y) ==
    CASE o = "log"  -> x # 0
      [] o = "xexp" -> TRUE
      [] o = "exp"  -> x # 0
      [] o = "inv"  -> x # 0
      [] o = "mul"  -> x # 0 \/ y # 0
      [] o = "div"  -> y # 0

\* An operation by the lone caller.  If it reaches get_tables(), the closure
\* has run on first use (T is what get_tables() returned) and the operation
\* read T; otherwise the guard and the tables are as they were.
UseTables(T, o, x, y, r) ==
    LET called == CallsGetTables(o, x, y)
    IN  /\ TABLES' = IF called THEN T ELSE TABLES
        /\ INIT' = IF called THEN "complete" ELSE INIT
        /\ runs' = IF called /\ INIT # "complete" THEN runs + 1 ELSE runs
        /\ thr' = [thr EXCEPT ![1] = Done(o, x, y, r)]
        /\ UNCHANGED early

Add ==
    /\ thr[1].pc = "idle"
    /\ \E x \in Byte, y \in Byte :
        thr' = [thr EXCEPT ![1] = Done("add", x, y, add(x, y))]
    /\ UNCHANGED <<INIT, TABLES, runs, early>>

\* T is what get_tables() returns to the call; the call works on T for
\* whatever operands it was given.
LogOn(T)  == \E x \in Byte : UseTables(T, "log", x, 0, log(T, x))
XexpOn(T) == \E p \in Byte : UseTables(T, "xexp", p, 0, xexp(T, p))
InvOn(T)  == \E x \in Byte : UseTables(T, "inv", x, 0, inv(T, x))
ExpOn(T)  == \E x \in Byte, p \in Byte : UseTables(T, "exp", x, p, exp(T, x, p))
MulOn(T)  == \E x \in Byte, y \in Byte : UseTables(T, "mul", x, y, mul(T, x, y))
DivOn(T)  == \E x \in Byte, y \in Byte : UseTables(T, "div", x, y, div(T, x, y))

Log  == thr[1].pc = "idle" /\ LogOn(get_tables(INIT, TABLES))
Xexp == thr[1].pc = "idle" /\ XexpOn(get_tables(INIT, TABLES))
Inv  == thr[1].pc = "idle" /\ InvOn(get_tables(INIT, TABLES))
Exp  == thr[1].pc = "idle" /\ ExpOn(get_tables(INIT, TABLES))
Mul  == thr[1].pc = "idle" /\ MulOn(get_tables(INIT, TABLES))
Div  == thr[1].pc = "idle" /\ DivOn(get_tables(INIT, TABLES))

\* The call has returned (or unwound); the caller is free to call again.
Return ==
    /\ thr[1].pc = "done"
    /\ thr' = [thr EXCEPT ![1] = Idle]
    /\ UNCHANGED <<INIT, TABLES, runs, early>>

Next == Log \/ Xexp \/ Inv \/ Exp \/ Mul \/ Div \/ Return

Spec == Init /\ [][Next]_vars

\* ------------------------------------------------------ first-call specification
\* The ring operations add and mul applied once, from the initial state, to
\* any two operands.
NextRing == Add \/ Mul

SpecRing == Init /\ [][NextRing]_vars

\* ------------------------------------------------ concurrent specification
\* NumThreads callers; every call is followed through its get_tables() calls,
\* the Once guard and, for the thread that wins it, each iteration of the
\* construction loops.

\* Operand bytes the concurrent callers draw from (from_byte takes any byte):
\* zero, whose logarithm is None without a call of get_tables(), and nonzero
\* bytes, whose logarithm is read from the tables.  A call with zero operands
\* only (log, exp, inv of zero, mul(0, 0), division by zero) returns or
\* panics without meeting the guard, even while the closure runs elsewhere;
\* mul(0, y), mul(x, 0) and div(0, y) meet it once.
ConcArgs == 0..MaxConcArg

TableOps == {"log", "xexp", "exp", "inv", "mul", "div"}

\* The thread is about to call get_tables() for xexp(i).
ToXexp(r, i) == [r EXCEPT !.idx = i, !.ret = "xexp", !.pc = "call_once"]

\* The call returns v; its locals are gone.
Finished(r, v) == [Idle EXCEPT !.op = r.op, !.a = r.a, !.b = r.b, !.res = v, !.pc = "done"]

\* Gf256::log entered for operand v on behalf of lookup `which`: zero has no
\* logarithm and touches no table, anything else goes through get_tables().
\* AfterLog (below) continues the caller once the logarithm is known.
RECURSIVE AfterLog(_, _, _)
EnterLog(r, which, v) ==
    IF v = 0 THEN AfterLog(r, which, None)
    ELSE [r EXCEPT !.ret = which, !.pc = "call_once"]

\* The caller of log() continues with logarithm l of its `which` operand.
AfterLog(r, which, l) ==
    CASE r.op = "log" -> Finished(r, l)
      [] r.op = "exp" ->
            IF l = None THEN Finished(r, zero)
            ELSE ToXexp(r, ((l * r.b) % 65536) % 255)
      [] r.op = "inv" ->
            IF l = None THEN Finished(r, None)
            ELSE ToXexp(r, 255 - l)
      [] r.op = "mul" /\ which = "log_self" ->
            EnterLog([r EXCEPT !.l1 = l], "log_rhs", r.b)
      [] r.op = "mul" /\ which = "log_rhs" ->
            IF r.l1 # None /\ l # None
            THEN ToXexp([r EXCEPT !.l2 = l], ((r.l1 + l) % 65536) % 255)
            ELSE Finished([r EXCEPT !.l2 = l], 0)
      [] r.op = "div" /\ which = "log_rhs" ->
            IF l = None THEN Finished(r, DivisionByZero)
            ELSE EnterLog([r EXCEPT !.l2 = l], "log_self", r.a)
      [] r.op = "div" /\ which = "log_self" ->
            IF l # None
            THEN ToXexp([r EXCEPT !.l1 = l], ((l + 255 - r.l2) % 65536) % 255)
            ELSE Finished([r EXCEPT !.l1 = l], 0)

\* A thread calls one of the table-using operations.
Call(t) ==
    /\ thr[t].pc = "idle"
    /\ \E o \in TableOps, x \in ConcArgs, y \in ConcArgs :
        LET r == [Idle EXCEPT !.op = o, !.a = x,
                              !.b = IF o \in {"exp", "mul", "div"} THEN y ELSE 0]
        IN  thr' = [thr EXCEPT ![t] =
                    CASE o = "xexp" -> ToXexp(r, x)
                      [] o = "div"  -> EnterLog(r, "log_rhs", y)
                      [] OTHER      -> EnterLog(r, "log_self", x)]
    /\ UNCHANGED <<INIT, TABLES, runs, early>>

\* Faulty variant of the guard: a caller that finds the closure running
\* elsewhere does not wait for it.
CallOnceNoWait(t) ==
    /\ thr[t].pc = "call_once"
    /\ \/ /\ INIT \in {"complete", "running"}
          /\ thr' = [thr EXCEPT ![t].pc = "read"]
          /\ UNCHANGED <<INIT, TABLES, runs, early>>
       \/ /\ INIT = "incomplete"
          /\ INIT' = "running"
          /\ runs' = runs + 1
          /\ thr' = [thr EXCEPT ![t].pc = "loop1", ![t].power = 0, ![t].tmp = 1]
          /\ UNCHANGED <<TABLES, early>>

\* INIT.call_once(closure): a completed guard lets the caller through; an
\* untouched one is taken by the caller, which then runs the closure; while
\* the closure runs elsewhere the caller waits (no step).
CallOnce(t) ==
    /\ thr[t].pc = "call_once"
    /\ \/ /\ INIT = "complete"
          /\ thr' = [thr EXCEPT ![t].pc = "read"]
          /\ UNCHANGED <<INIT, TABLES, runs, early>>
       \/ /\ INIT = "incomplete"
          /\ INIT' = "running"
          /\ runs' = runs + 1
          /\ thr' = [thr EXCEPT ![t].pc = "loop1", ![t].power = 0, ![t].tmp = 1]
          /\ UNCHANGED <<TABLES, early>>

\* One iteration of `for power in 0..255usize`; tmp starts at 1.
Loop1(t) ==
    /\ thr[t].pc = "loop1"
    /\ TABLES' = ExpLogStep(TABLES, thr[t].power, thr[t].tmp)
    /\ thr' = [thr EXCEPT ![t].power = @ + 1,
                          ![t].tmp = xtimes(@),
                          ![t].pc = IF thr[t].power + 1 = 255 THEN "set255" ELSE "loop1"]
    /\ UNCHANGED <<INIT, runs, early>>

\* tabs.exp[255] = 1
Set255(t) ==
    /\ thr[t].pc = "set255"
    /\ TABLES' = SetExp255(TABLES)
    /\ thr' = [thr EXCEPT ![t].pc = "loop2", ![t].x = 1]
    /\ UNCHANGED <<INIT, runs, early>>

\* One iteration of `for x in 1..256usize`.
Loop2(t) ==
    /\ thr[t].pc = "loop2"
    /\ TABLES' = InvStep(TABLES, thr[t].x)
    /\ thr' = [thr EXCEPT ![t].x = @ + 1,
                          ![t].pc = IF thr[t].x + 1 = 256 THEN "finish" ELSE "loop2"]
    /\ UNCHANGED <<INIT, runs, early>>

\* The closure has returned: call_once marks the guard complete and returns.
Finish(t) ==
    /\ thr[t].pc = "finish"
    /\ INIT' = "complete"
    /\ thr' = [thr EXCEPT ![t].pc = "read"]
    /\ UNCHANGED <<TABLES, runs, early>>

\* get_tables() has returned &TABLES; the caller indexes the table.
Read(t) ==
    /\ thr[t].pc = "read"
    /\ early' = (early \/ INIT # "complete")
    /\ thr' = [thr EXCEPT ![t] =
            CASE thr[t].ret = "log_self" -> AfterLog(thr[t], "log_self", TABLES.log[thr[t].a])
              [] thr[t].ret = "log_rhs"  -> AfterLog(thr[t], "log_rhs", TABLES.log[thr[t].b])
              [] thr[t].ret = "xexp"     -> Finished(thr[t], TABLES.exp[thr[t].idx])]
    /\ UNCHANGED <<INIT, TABLES, runs>>

\* The call has returned (or unwound) to the thread's caller.
ReturnOf(t) ==
    /\ thr[t].pc = "done"
    /\ thr' = [thr EXCEPT ![t] = Idle]
    /\ UNCHANGED <<INIT, TABLES, runs, early>>

NextConc == \E t \in Threads :
    \/ Call(t)
    \/ CallOnce(t)
    \/ Loop1(t)
    \/ Set255(t)
    \/ Loop2(t)
    \/ Finish(t)
    \/ Read(t)
    \/ ReturnOf(t)

SpecConc == Init /\ [][NextConc]_vars

\* ================================================================ claims
\* The call the lone caller of Spec has just completed.
Cur == thr[1]

Completed(o) == Cur.pc = "done" /\ Cur.op = o

\* The tables a call made in this state works on.
Tabs == get_tables(INIT, TABLES)

\* C1: multiplicative inverse recovery.  After mul(a, b) has returned c:
\* if a is not zero then div(c, a) = b, and if b is not zero then
\* div(c, b) = a.
MulDivRecovers ==
    Completed("mul") =>
        /\ Cur.a # zero => div(Tabs, Cur.res, Cur.a) = Cur.b
        /\ Cur.b # zero => div(Tabs, Cur.res, Cur.b) = Cur.a

MulDivRecoversWitness ==
    /\ Completed("mul")
    /\ Cur.a = 5 /\ Cur.b = 171
    /\ Cur.res \in Byte \ {0}
    /\ div(Tabs, Cur.res, 5) = 171
    /\ div(Tabs, Cur.res, 171) = 5

\* C2: div(a, b) ends in the division-by-zero failure exactly when b is
\* zero, whatever the dividend (zero included), and returns a field element
\* for every other divisor.
DivFailsIffZeroDivisor ==
    Completed("div") =>
        /\ Cur.b = zero => Cur.res = DivisionByZero /\ Cur.res \notin Byte
        /\ Cur.b # zero => Cur.res \in Byte /\ Cur.res # DivisionByZero

DivFailsIffZeroDivisorWitness ==
    /\ Completed("div")
    /\ Cur.a = zero /\ Cur.b = zero
    /\ Cur.res = DivisionByZero

\* C4: inv(a) is absent exactly when a is zero, and for every other a the
\* element y it returns satisfies mul(a, y) = one and mul(y, a) = one.
InvIsInverse ==
    Completed("inv") =>
        /\ Cur.res = None <=> Cur.a = zero
        /\ Cur.a # zero =>
            /\ Cur.res \in Byte
            /\ mul(Tabs, Cur.a, Cur.res) = one
            /\ mul(Tabs, Cur.res, Cur.a) = one

InvIsInverseWitness ==
    /\ Completed("inv")
    /\ Cur.a = 143
    /\ Cur.res \in Byte
    /\ mul(Tabs, 143, Cur.res) = one

\* C5: distributivity.  For all bytes a, b, c:
\* mul(a, add(b, c)) = add(mul(a, b), mul(a, c)).
DistributesOver(T, a, b, ab) ==
    \A c \in Byte : mul(T, a, add(b, c)) = add(ab, mul(T, a, c))

Distributive ==
    Completed("mul") => DistributesOver(Tabs, Cur.a, Cur.b, Cur.res)

DistributiveWitness ==
    /\ Completed("mul")
    /\ Cur.a = 143 /\ Cur.b = 21
    /\ Cur.res # zero
    /\ mul(Tabs, 143, add(21, 162)) = add(Cur.res, mul(Tabs, 143, 162))

\* C6: add and mul are commutative and associative over all bytes.
AddAssociates(a, b, ab) ==
    \A c \in Byte : add(ab, c) = add(a, add(b, c))

MulAssociates(T, a, b, ab) ==
    \A c \in Byte : mul(T, ab, c) = mul(T, a, mul(T, b, c))

CommutativeAssociative ==
    /\ Completed("add") =>
        /\ Cur.res = add(Cur.b, Cur.a)
        /\ AddAssociates(Cur.a, Cur.b, Cur.res)
    /\ Completed("mul") =>
        /\ Cur.res = mul(Tabs, Cur.b, Cur.a)
        /\ MulAssociates(Tabs, Cur.a, Cur.b, Cur.res)

CommutativeAssociativeWitness ==
    /\ Completed("mul")
    /\ Cur.a = 143 /\ Cur.b = 0
    /\ Cur.res = zero
    /\ mul(Tabs, 0, 143) = zero

\* C7: for a not zero, exp(a, power) is the product of `power` copies of a:
\* exp(a, 0) = one, exp(a, 1) = a, exp(a, n + 1) = mul(exp(a, n), a) for n
\* in 0..254, and exp(a, 255) = one.
ExpIsRepeatedMul ==
    (Completed("exp") /\ Cur.a # zero) =>
        /\ Cur.b = 0 => Cur.res = one
        /\ Cur.b = 1 => Cur.res = Cur.a
        /\ Cur.b < 255 => exp(Tabs, Cur.a, Cur.b + 1) = mul(Tabs, Cur.res, Cur.a)
        /\ Cur.b = 255 => Cur.res = one

ExpIsRepeatedMulWitness ==
    /\ Completed("exp")
    /\ Cur.a = 143 /\ Cur.b = 200
    /\ Cur.res \in Byte \ {0, 1}
    /\ exp(Tabs, 143, 201) = mul(Tabs, Cur.res, 143)

\* C8: exp(zero, power) = zero for every power, power 0 included.
ExpOfZeroIsZero ==
    (Completed("exp") /\ Cur.a = zero) => Cur.res = zero

ExpOfZeroIsZeroWitness ==
    /\ Completed("exp")
    /\ Cur.a = zero /\ Cur.b = 0
    /\ Cur.res = zero

\* Reference product for C10: the carry-less (GF(2)) polynomial product of
\* two bytes, reduced modulo x^8 + x^4 + x^3 + x^2 + 1.
FieldPoly == 285

Xor16(p, q) == Xor(p \div 256, q \div 256) * 256 + Xor(p % 256, q % 256)

Bit(p, k) == (p \div (2 ^ k)) % 2

\* The sum over the set bits i of b, from bit i upwards, of a * x^i.
RECURSIVE ClMul(_, _, _)
ClMul(a, b, i) ==
    IF i = 8 THEN 0
    ELSE Xor16(IF Bit(b, i) = 1 THEN a * (2 ^ i) ELSE 0, ClMul(a, b, i + 1))

\* p reduced modulo FieldPoly, clearing bits k, k - 1, ..., 8.
RECURSIVE PolyMod(_, _)
PolyMod(p, k) ==
    IF k < 8 THEN p
    ELSE PolyMod(IF Bit(p, k) = 1 THEN Xor16(p, FieldPoly * (2 ^ (k - 8))) ELSE p, k - 1)

RefMul(a, b) == PolyMod(ClMul(a, b, 0), 14)

\* C10: for all bytes a, b the table-based mul(a, b) equals the carry-less
\* polynomial product of a and b reduced modulo x^8 + x^4 + x^3 + x^2 + 1.
MulIsPolynomialProduct ==
    Completed("mul") => Cur.res = RefMul(Cur.a, Cur.b)

MulIsPolynomialProductWitness ==
    /\ Completed("mul")
    /\ Cur.a = 128 /\ Cur.b = 2
    /\ Cur.res = POLY
    /\ RefMul(128, 2) = POLY

\* The tables a completed construction leaves behind.
FullTables == BuildTables(ZeroTables)

\* The value op(a, b) takes on tables T.
Apply(T, o, x, y) ==
    CASE o = "log"  -> log(T, x)
      [] o = "xexp" -> xexp(T, x)
      [] o = "exp"  -> exp(T, x, y)
      [] o = "inv"  -> inv(T, x)
      [] o = "mul"  -> mul(T, x, y)
      [] o = "div"  -> div(T, x, y)

InClosure(t) == thr[t].pc \in {"loop1", "set255", "loop2", "finish"}

\* C3: under any interleaving of the callers, the construction body runs at
\* most once and no caller reads a table entry before the construction has
\* completed: every read happens with the guard complete, and every call
\* returns what the completed tables give.
ConstructedOnceReadComplete ==
    /\ runs <= 1
    /\ ~early
    /\ Cardinality({t \in Threads : InClosure(t)}) <= 1
    /\ \A t \in Threads :
        /\ thr[t].pc = "read" => INIT = "complete"
        /\ thr[t].pc = "done" =>
            thr[t].res = Apply(FullTables, thr[t].op, thr[t].a, thr[t].b)

ConstructedOnceReadCompleteWitness ==
    \E t1 \in Threads, t2 \in Threads :
        /\ t1 # t2
        /\ thr[t1].pc = "loop2" /\ thr[t1].x = 200
        /\ thr[t2].pc = "call_once"
        /\ INIT = "running"
        /\ runs = 1

\* C9: once construction has completed, exp[0..254] holds every nonzero
\* byte exactly once, exp[0] = exp[255] = 1, and exp and log are mutual
\* inverses: exp[log[v]] = v for v in 1..255, log[exp[i]] = i for i in 0..254.
TablesAreInverse ==
    INIT = "complete" =>
        /\ TABLES.exp[0] = 1
        /\ TABLES.exp[255] = 1
        /\ {TABLES.exp[i] : i \in 0..254} = 1..255
        /\ \A v \in 1..255 : TABLES.exp[TABLES.log[v]] = v
        /\ \A i \in 0..254 : TABLES.log[TABLES.exp[i]] = i

TablesAreInverseWitness ==
    /\ INIT = "complete"
    /\ TABLES.exp[254] = 142
    /\ TABLES.log[142] = 254
    /\ TABLES.exp[255] = 1

====
